---- MODULE Spec2Model ----
(***************************************************************************)
(* Model of SparkConnector/Spark-EMR-Snowflake.ipynb.                      *)
(*                                                                         *)
(* The notebook has three code cells:                                      *)
(*   1. a %%bash cell that rewrites ~/.sparkmagic/config.json from a       *)
(*      cached template (config.json.bk) through a candidate file         *)
(*      (config.json.new),                                                 *)
(*   2. get_credentials(params), one batch call to the parameter store,    *)
(*   3. the sfOptions dict literal followed by the Snowflake query.        *)
(*                                                                         *)
(* A file is a record [exists, lines]; its lines are sequences of tokens,  *)
(* a token being either the placeholder "localhost" or other text.  The    *)
(* placeholder has no proper border, so its literal occurrences in a line  *)
(* never overlap and a token sequence loses nothing sed can see.           *)
(*                                                                         *)
(* Target addresses are host identifiers (letters, digits, dots, dashes),  *)
(* none of which sed treats specially in a replacement; a host identifier  *)
(* may itself contain the text "localhost".                                *)
(***************************************************************************)
EXTENDS Integers, Sequences, FiniteSets, TLC

VARIABLES
    bk,           \* $CONF.bk  : the cached baseline template
    new,          \* $CONF.new : the candidate
    active,       \* $CONF     : the active sparkmagic configuration
    stdout,       \* what the last run of the bash cell printed
    status,       \* exit status of the last run of the bash cell
    target,       \* EMR_MASTER_INTERNAL_IP of the last run
    fetch,        \* what the last run did about the template: none / ok / failed
    remote,       \* the document served at the template URL
    \* history of the sequential runs
    runs,         \* completed runs
    fetches,      \* template fetches issued so far
    prevTarget,   \* target of the run before the last
    priorBk,      \* the three files as the last run found them
    priorNew,
    priorActive,
    \* two concurrent runs of the bash cell
    pc,           \* position of each run in the cell
    tgt,          \* EMR_MASTER_INTERNAL_IP of each run
    out,          \* what each run printed
    newWriter,    \* the run that wrote the candidate last
    written,      \* the candidate each run wrote
    promoted,     \* for each finished run, the run whose candidate it promoted
    got,          \* the active file as each run's cp left it
    \* the credentials and data import cells
    store,        \* content of the parameter store
    params,       \* the request handed to get_credentials
    param_values, \* its result
    credState,    \* idle / returned / raised
    roundTrips,   \* calls made to the store by the last get_credentials
    sfOptions,    \* the connection options
    optState,     \* idle / built / KeyError
    missingKey,   \* the key the KeyError names
    queryIssued   \* whether spark.read ... load() ran

confVars == <<bk, new, active, stdout, status, target, fetch, remote>>
histVars == <<runs, fetches, prevTarget, priorBk, priorNew, priorActive>>
concVars == <<pc, tgt, out, newWriter, written, promoted, got>>
credVars == <<store, params, param_values, credState, roundTrips,
              sfOptions, optState, missingKey, queryIssued>>
vars == <<confVars, histVars, concVars, credVars>>

-----------------------------------------------------------------------------
(* Bounds *)

MaxLines == 2      \* lines of a template
MaxLineLen == 2    \* tokens of a line
MaxRuns == 3       \* sequential runs of the bash cell
MaxReqLen == 2     \* length of the short requests

-----------------------------------------------------------------------------
(* Files *)

Placeholder == "localhost"
Tokens == {Placeholder, "x"}
Lines == UNION {[1..n -> Tokens] : n \in 0..MaxLineLen}
Contents == UNION {[1..n -> Lines] : n \in 0..MaxLines}

Absent == [exists |-> FALSE, lines |-> <<>>]
File(c) == [exists |-> TRUE, lines |-> c]
Empty == File(<<>>)

Targets == {<<"ipA">>, <<"ipB">>, <<Placeholder, "x">>}
NoTarget == <<>>

RestartMsg == "Configuration has changed; Restart Kernel"

\* [[ ! -e $CONF.bk ]]
NeedFetch(f) == ~f.exists

\* wget ... -O config.json.bk 2>/dev/null : -O opens (creates, truncates) the
\* output before anything is retrieved, so an unreachable remote leaves an
\* empty file; the error message is discarded and the script goes on.
\* (variant: a download that leaves no file behind when it fails)
WgetNoFile(outcome) == IF outcome = "ok" THEN File(remote) ELSE Absent
Wget(outcome) == IF outcome = "ok" THEN File(remote) ELSE Empty

\* sed "s/localhost/$EMR_MASTER_INTERNAL_IP/" on one line: no g flag, so the
\* first occurrence of the line is replaced and the rest of the line is kept.
FirstAt(line) ==
    IF \E i \in 1..Len(line) : line[i] = Placeholder
    THEN CHOOSE i \in 1..Len(line) :
            /\ line[i] = Placeholder
            /\ \A j \in 1..(i-1) : line[j] # Placeholder
    ELSE 0

SedLine(line, t) ==
    LET i == FirstAt(line)
    IN IF i = 0 THEN line
       ELSE SubSeq(line, 1, i-1) \o t \o SubSeq(line, i+1, Len(line))

SedSubst(lines, t) == [i \in 1..Len(lines) |-> SedLine(lines[i], t)]

\* cat $CONF.bk | sed ... > $CONF.new : the redirection creates the candidate
\* whatever cat finds; a missing baseline gives sed an empty input.
SedFrom(f, t) == IF f.exists THEN File(SedSubst(f.lines, t)) ELSE Empty
\* (variant: the active file edited in place instead of the baseline)
CatSedInPlace(f, t) == SedFrom(IF active.exists THEN active ELSE f, t)
CatSed(f, t) == SedFrom(f, t)

\* [[ $(diff $CONF.new $CONF) ]] : true iff diff wrote something to stdout.
\* A missing operand makes diff complain on stderr only, and stdout is empty.
DiffOutput(a, b) == a.exists /\ b.exists /\ a.lines # b.lines
\* (variant: the candidate compared with the baseline)
DiffWrongFile(a, b) == DiffOutput(a, bk)
DiffStdout(a, b) == DiffOutput(a, b)

\* cp $CONF.new $CONF
\* (variant: the copy left out)
CpNothing(src, dst) == dst
Cp(src, dst) == src

-----------------------------------------------------------------------------
(* The bash cell, run to completion *)

ConfigRun(t, outcome) ==
    LET needFetch == NeedFetch(bk)
        bk1 == IF needFetch THEN Wget(outcome) ELSE bk
        new1 == CatSed(bk1, t)
        changed == DiffStdout(new1, active)
    IN /\ runs < MaxRuns
       /\ bk' = bk1
       /\ new' = new1
       /\ stdout' = IF changed THEN <<RestartMsg>> ELSE <<>>
       /\ active' = Cp(new1, active)
       /\ status' = 0
       /\ target' = t
       /\ fetch' = IF needFetch THEN outcome ELSE "none"
       /\ runs' = runs + 1
       /\ fetches' = IF needFetch THEN fetches + 1 ELSE fetches
       /\ prevTarget' = target
       /\ priorBk' = bk
       /\ priorNew' = new
       /\ priorActive' = active
       /\ UNCHANGED <<remote, concVars, credVars>>

-----------------------------------------------------------------------------
(* Two runs of the bash cell against the same three paths, one command at  *)
(* a time.  Nothing in the cell takes a lock.                              *)

Procs == {1, 2}
Outcomes == {"ok", "failed"}

TestBk(p) ==
    /\ pc[p] = "test"
    /\ pc' = [pc EXCEPT ![p] = IF NeedFetch(bk) THEN "wget" ELSE "sed"]
    /\ UNCHANGED <<confVars, histVars, tgt, out, newWriter, written, promoted, got, credVars>>

WgetStep(p, outcome) ==
    /\ pc[p] = "wget"
    /\ bk' = Wget(outcome)
    /\ pc' = [pc EXCEPT ![p] = "sed"]
    /\ UNCHANGED <<new, active, stdout, status, target, fetch, remote,
                   histVars, tgt, out, newWriter, written, promoted, got, credVars>>

SedStep(p) ==
    /\ pc[p] = "sed"
    /\ new' = CatSed(bk, tgt[p])
    /\ newWriter' = p
    /\ written' = [written EXCEPT ![p] = CatSed(bk, tgt[p])]
    /\ pc' = [pc EXCEPT ![p] = "diff"]
    /\ UNCHANGED <<bk, active, stdout, status, target, fetch, remote,
                   histVars, tgt, out, promoted, got, credVars>>

DiffStep(p) ==
    /\ pc[p] = "diff"
    /\ pc' = [pc EXCEPT ![p] = IF DiffStdout(new, active) THEN "echo" ELSE "cp"]
    /\ UNCHANGED <<confVars, histVars, tgt, out, newWriter, written, promoted, got, credVars>>

EchoStep(p) ==
    /\ pc[p] = "echo"
    /\ out' = [out EXCEPT ![p] = <<RestartMsg>>]
    /\ pc' = [pc EXCEPT ![p] = "cp"]
    /\ UNCHANGED <<confVars, histVars, tgt, newWriter, written, promoted, got, credVars>>

CpStep(p) ==
    /\ pc[p] = "cp"
    /\ active' = Cp(new, active)
    /\ promoted' = [promoted EXCEPT ![p] = newWriter]
    /\ got' = [got EXCEPT ![p] = Cp(new, active)]
    /\ pc' = [pc EXCEPT ![p] = "done"]
    /\ UNCHANGED <<bk, new, stdout, status, target, fetch, remote,
                   histVars, tgt, out, newWriter, written, credVars>>

-----------------------------------------------------------------------------
(* The credentials cell and the data import cell *)

URL == "/SNOWFLAKE/URL"
ACCOUNT_ID == "/SNOWFLAKE/ACCOUNT_ID"
USER_ID == "/SNOWFLAKE/USER_ID"
PASSWORD == "/SNOWFLAKE/PASSWORD"
DATABASE == "/SNOWFLAKE/DATABASE"
SCHEMA == "/SNOWFLAKE/SCHEMA"
WAREHOUSE == "/SNOWFLAKE/WAREHOUSE"
BUCKET == "/SNOWFLAKE/BUCKET"
PREFIX == "/SNOWFLAKE/PREFIX"

\* params=[...]
NotebookParams ==
    <<URL, ACCOUNT_ID, USER_ID, PASSWORD, DATABASE, SCHEMA, WAREHOUSE, BUCKET, PREFIX>>

Range(q) == {q[i] : i \in 1..Len(q)}
StoreNames == Range(NotebookParams)

\* Other requests get_credentials may be handed: short non-empty sequences,
\* repeated names allowed.
ShortNames == {URL, PASSWORD, BUCKET}
Requests ==
    {NotebookParams} \cup UNION {[1..n -> ShortNames] : n \in 1..MaxReqLen}

\* The store: the parameters that exist, each with its decrypted value, and
\* whether the caller's identity may read them.
Generations == {"g1", "g2"}
Secret(n, g) == <<n, g>>
Stores ==
    {[values |-> [n \in present |-> Secret(n, g)], authorized |-> a] :
        present \in SUBSET StoreNames, g \in Generations, a \in BOOLEAN}

\* ssm.get_parameters(Names=..., WithDecryption=True): one record per requested
\* name the store holds; the names it does not hold are reported apart and
\* raise nothing.
\* (variant: every parameter under the path, as get_parameters_by_path gives)
GetParametersByPath(names, st) ==
    LET all == SelectSeq(NotebookParams, LAMBDA n : n \in DOMAIN st.values)
    IN [Parameters |-> [i \in 1..Len(all) |->
                            [Name |-> all[i], Value |-> st.values[all[i]]]],
        InvalidParameters |-> <<>>]
GetParameters(names, st) ==
    LET found == SelectSeq(names, LAMBDA n : n \in DOMAIN st.values)
    IN [Parameters |-> [i \in 1..Len(found) |->
                            [Name |-> found[i], Value |-> st.values[found[i]]]],
        InvalidParameters |-> SelectSeq(names, LAMBDA n : n \notin DOMAIN st.values)]

\* {k['Name']:k['Value'] for k in response['Parameters']} : a later record
\* of the same name replaces an earlier one.
LastOf(records, name) ==
    CHOOSE i \in 1..Len(records) :
        /\ records[i].Name = name
        /\ \A j \in (i+1)..Len(records) : records[j].Name # name

\* (variant: k['Name']:k['Name'])
DictNameToName(records) ==
    [n \in {records[i].Name : i \in 1..Len(records)} |-> <<n, n>>]
DictOf(records) ==
    [n \in {records[i].Name : i \in 1..Len(records)} |->
        records[LastOf(records, n)].Value]

NoDict == [n \in {} |-> n]

\* def get_credentials(params) ... param_values=get_credentials(params)
GetCredentials(R) ==
    /\ credState = "idle"
    /\ params' = R
    /\ roundTrips' = 1
    /\ IF store.authorized
       THEN /\ param_values' = DictOf(GetParameters(R, store).Parameters)
            /\ credState' = "returned"
       ELSE /\ UNCHANGED param_values
            /\ credState' = "raised"
    /\ UNCHANGED <<store, sfOptions, optState, missingKey, queryIssued>>
    /\ UNCHANGED <<confVars, histVars, concVars>>

\* sfOptions = { "sfURL" : param_values['/SNOWFLAKE/URL'], ... } : the entries
\* are evaluated top to bottom and the first missing key raises KeyError.
\* (variant: an eighth entry reading BUCKET)
SfOptionKeysWithBucket ==
    << <<"sfURL", URL>>, <<"sfAccount", ACCOUNT_ID>>, <<"sfUser", USER_ID>>,
       <<"sfPassword", PASSWORD>>, <<"sfDatabase", DATABASE>>,
       <<"sfSchema", SCHEMA>>, <<"sfWarehouse", WAREHOUSE>>,
       <<"sfBucket", BUCKET>> >>
SfOptionKeys ==
    << <<"sfURL", URL>>, <<"sfAccount", ACCOUNT_ID>>, <<"sfUser", USER_ID>>,
       <<"sfPassword", PASSWORD>>, <<"sfDatabase", DATABASE>>,
       <<"sfSchema", SCHEMA>>, <<"sfWarehouse", WAREHOUSE>> >>

FirstMissing(pv) ==
    IF \E i \in 1..Len(SfOptionKeys) : SfOptionKeys[i][2] \notin DOMAIN pv
    THEN CHOOSE i \in 1..Len(SfOptionKeys) :
            /\ SfOptionKeys[i][2] \notin DOMAIN pv
            /\ \A j \in 1..(i-1) : SfOptionKeys[j][2] \in DOMAIN pv
    ELSE 0

OptionsOf(pv) ==
    [o \in {SfOptionKeys[i][1] : i \in 1..Len(SfOptionKeys)} |->
        pv[SfOptionKeys[CHOOSE i \in 1..Len(SfOptionKeys) : SfOptionKeys[i][1] = o][2]]]

\* The data import cell: the dict literal, then spark.read ... load().
BuildOptions ==
    /\ credState = "returned"
    /\ optState = "idle"
    /\ LET m == FirstMissing(param_values)
       IN IF m = 0
          THEN /\ sfOptions' = OptionsOf(param_values)
               /\ optState' = "built"
               /\ missingKey' = ""
               /\ queryIssued' = TRUE
          ELSE /\ UNCHANGED sfOptions
               /\ optState' = "KeyError"
               /\ missingKey' = SfOptionKeys[m][2]
               /\ queryIssued' = FALSE
    /\ UNCHANGED <<store, params, param_values, credState, roundTrips>>
    /\ UNCHANGED <<confVars, histVars, concVars>>

-----------------------------------------------------------------------------
(* Specifications *)

SampleActives == {Absent, Empty, File(<< <<Placeholder>> >>), File(<< <<"ipA">> >>)}

ConcIdle ==
    /\ pc = [p \in Procs |-> "idle"]
    /\ tgt = [p \in Procs |-> NoTarget]
    /\ out = [p \in Procs |-> <<>>]
    /\ newWriter = 0
    /\ written = [p \in Procs |-> Absent]
    /\ promoted = [p \in Procs |-> 0]
    /\ got = [p \in Procs |-> Absent]

HistInit ==
    /\ runs = 0
    /\ fetches = 0
    /\ prevTarget = NoTarget
    /\ priorBk = Absent
    /\ priorNew = Absent
    /\ priorActive = Absent

ConfInit ==
    /\ remote \in Contents
    /\ bk \in {Absent, Empty, File(remote)}
    /\ new = Absent
    /\ active \in SampleActives
    /\ stdout = <<>>
    /\ status = 0
    /\ target = NoTarget
    /\ fetch = "none"

CredStart ==
    /\ params = <<>>
    /\ param_values = NoDict
    /\ credState = "idle"
    /\ roundTrips = 0
    /\ sfOptions = NoDict
    /\ optState = "idle"
    /\ missingKey = ""
    /\ queryIssued = FALSE

CredIdle ==
    /\ store = [values |-> NoDict, authorized |-> TRUE]
    /\ CredStart

Init == ConfInit /\ HistInit /\ ConcIdle /\ CredIdle

Next == \E t \in Targets, outcome \in Outcomes : ConfigRun(t, outcome)

Spec == Init /\ [][Next]_vars

ConcInit ==
    /\ ConfInit
    /\ Len(remote) = 1
    /\ HistInit
    /\ CredIdle
    /\ pc = [p \in Procs |-> "test"]
    /\ tgt \in {f \in [Procs -> Targets] : f[1] # f[2]}
    /\ out = [p \in Procs |-> <<>>]
    /\ newWriter = 0
    /\ written = [p \in Procs |-> Absent]
    /\ promoted = [p \in Procs |-> 0]
    /\ got = [p \in Procs |-> Absent]

ConcNext ==
    \E p \in Procs :
        \/ TestBk(p)
        \/ \E outcome \in Outcomes : WgetStep(p, outcome)
        \/ SedStep(p)
        \/ DiffStep(p)
        \/ EchoStep(p)
        \/ CpStep(p)

SpecConc == ConcInit /\ [][ConcNext]_vars

ConfIdle ==
    /\ remote = <<>>
    /\ bk = Absent
    /\ new = Absent
    /\ active = Absent
    /\ stdout = <<>>
    /\ status = 0
    /\ target = NoTarget
    /\ fetch = "none"

CredInit ==
    /\ ConfIdle
    /\ HistInit
    /\ ConcIdle
    /\ store \in Stores
    /\ CredStart

CredNext ==
    \/ \E R \in Requests : GetCredentials(R)
    \/ BuildOptions

SpecCred == CredInit /\ [][CredNext]_vars

-----------------------------------------------------------------------------
(* Properties of the bash cell, run sequentially (Spec) *)

RECURSIVE ReplaceAllLine(_, _)
ReplaceAllLine(line, t) ==
    IF line = <<>> THEN <<>>
    ELSE (IF Head(line) = Placeholder THEN t ELSE <<Head(line)>>)
            \o ReplaceAllLine(Tail(line), t)

ReplaceAll(lines, t) == [i \in 1..Len(lines) |-> ReplaceAllLine(lines[i], t)]

\* C1: after a run, the candidate and the active file are the baseline with
\* every occurrence of the placeholder replaced by the target, also where a
\* line holds the placeholder more than once.
C1_EveryOccurrenceReplaced ==
    runs > 0 =>
        /\ new = File(ReplaceAll(bk.lines, target))
        /\ active = new

\* The content of a file for a comparison: a file that does not exist holds
\* nothing.
ContentOf(f) == IF f.exists THEN f.lines ELSE <<>>

\* C2: a run prints the restart message exactly once if the candidate differs
\* from what the active file held before the run, a missing active file
\* included, and prints nothing if they are identical.
C2_SignalIffDiffers ==
    runs > 0 =>
        IF ContentOf(new) # ContentOf(priorActive)
        THEN stdout = <<RestartMsg>>
        ELSE stdout = <<>>

\* C3: a run with the same target as the run before it leaves the active file
\* as that run left it and prints no restart message.
C3_SecondRunIdempotent ==
    (runs >= 2 /\ target = prevTarget) =>
        /\ active = priorActive
        /\ stdout = <<>>

C3_Witness ==
    /\ runs >= 2
    /\ target = prevTarget
    /\ active = priorActive
    /\ active # bk
    /\ stdout = <<>>

\* C4: over any sequence of runs the template is fetched at most once: a run
\* fetches only if it found no baseline, and it leaves a baseline behind.
C4_FetchAtMostOnce ==
    /\ fetches <= 1
    /\ fetch # "none" => (~priorBk.exists /\ bk.exists)

C4_Witness ==
    /\ runs >= 2
    /\ fetches = 1
    /\ fetch = "none"
    /\ priorBk.exists

\* C5: a run that finds no baseline and cannot reach the template fails and
\* stops there: no candidate is written, nothing is printed and the active
\* file is left as it was.
C5_FailedFetchStops ==
    fetch = "failed" =>
        /\ status # 0
        /\ new = priorNew
        /\ stdout = <<>>
        /\ active = priorActive

\* C9: a run that found a baseline leaves the active file equal to that
\* baseline with the substitution of the run's own target applied, whatever
\* the earlier targets and the earlier active file were, and leaves the
\* baseline as it was.
C9_LastTargetWins ==
    (runs > 0 /\ priorBk.exists) =>
        /\ active = File(SedSubst(bk.lines, target))
        /\ bk = priorBk

C9_Witness ==
    /\ runs >= 2
    /\ priorBk.exists
    /\ target # prevTarget
    /\ priorActive = File(SedSubst(bk.lines, prevTarget))
    /\ active = File(SedSubst(bk.lines, target))
    /\ active # priorActive

-----------------------------------------------------------------------------
(* Properties of two concurrent runs (SpecConc) *)

\* C8: no lock ties a run's candidate to its promotion: what a finished run
\* copied into the active file is the candidate of whichever run wrote the
\* candidate file last before the copy, its own or the other run's.
C8_PromotesLastWriter ==
    \A p \in Procs :
        pc[p] = "done" =>
            /\ promoted[p] \in Procs
            /\ got[p] = written[promoted[p]]

\* A run has finished having promoted the other run's candidate, and the
\* active file holds the other run's target, not its own.
C8_Witness ==
    \E p \in Procs, q \in Procs :
        /\ p # q
        /\ pc[p] = "done"
        /\ promoted[p] = q
        /\ active = got[p]
        /\ bk.exists
        /\ active = File(SedSubst(bk.lines, tgt[q]))
        /\ active # File(SedSubst(bk.lines, tgt[p]))

-----------------------------------------------------------------------------
(* Properties of the credentials and data import cells (SpecCred) *)

\* C6: whatever the request and the store hold, a call the store authorizes
\* returns, and its mapping holds exactly the requested names the store has,
\* each with the store's value; the names the store lacks are left out.
C6_MissingNamesOmitted ==
    (credState # "idle" /\ store.authorized) =>
        /\ credState = "returned"
        /\ DOMAIN param_values = Range(params) \cap DOMAIN store.values
        /\ \A n \in DOMAIN param_values : param_values[n] = store.values[n]

C6_Witness ==
    /\ credState = "returned"
    /\ Len(params) = 9
    /\ Cardinality(DOMAIN param_values) = 8

Consumed == {URL, ACCOUNT_ID, USER_ID, PASSWORD, DATABASE, SCHEMA, WAREHOUSE}

\* C10: the connection options are built iff all seven consumed names are in
\* the mapping; otherwise a KeyError names a missing consumed name, no options
\* are assigned and no query is issued.  BUCKET and PREFIX play no part.
C10_BuiltIffConsumedPresent ==
    optState # "idle" =>
        /\ optState = "built" <=> Consumed \subseteq DOMAIN param_values
        /\ optState = "built" =>
              /\ queryIssued
              /\ sfOptions["sfURL"] = param_values[URL]
              /\ sfOptions["sfPassword"] = param_values[PASSWORD]
              /\ Cardinality(DOMAIN sfOptions) = 7
        /\ optState # "built" =>
              /\ optState = "KeyError"
              /\ missingKey \in Consumed \ DOMAIN param_values
              /\ sfOptions = NoDict
              /\ ~queryIssued

C10_Witness ==
    /\ optState = "KeyError"
    /\ Len(params) = 9
    /\ DOMAIN param_values = StoreNames \ {PASSWORD}
    /\ missingKey = PASSWORD
    /\ ~queryIssued

====
